---- MODULE Spec2Model ----
(***************************************************************************)
(* A model of the bencode package: the codec between a byte stream and the *)
(* generic RawMessage tree (Decode / Encode), and the reflective mapping   *)
(* between RawMessage and typed Go values (Marshal / Unmarshal).           *)
(*                                                                         *)
(* Bytes are one-character strings, byte strings are sequences of them.    *)
(* A Go panic (failed type assertion, index out of range, reflect misuse)  *)
(* is the outcome "panic"; a returned error is the outcome "err".          *)
(***************************************************************************)
EXTENDS Integers, Sequences

\* Longest byte stream handed to the decoder.
MaxLen == 5

\* A stream of values: at most MaxVals values of at most MaxValLen bytes each.
MaxVals == 2

MaxValLen == 4

\* The bytes the streams are drawn from: the four type markers, the two
\* separators, the sign, and two digits (digits double as string payload).
Alphabet == {"i", "l", "d", "e", ":", "-", "0", "1"}

Digits == <<"0", "1", "2", "3", "4", "5", "6", "7", "8", "9">>

IsDigit(c) == \E k \in 1..10 : Digits[k] = c

DigitVal(c) == (CHOOSE k \in 1..10 : Digits[k] = c) - 1

RECURSIVE SeqsOfLen(_, _)
SeqsOfLen(S, n) ==
  IF n = 0 THEN {<<>>}
  ELSE {Append(s, x) : s \in SeqsOfLen(S, n - 1), x \in S}

BoundedSeq(S, n) == UNION {SeqsOfLen(S, k) : k \in 0..n}

Drop(s, n) == SubSeq(s, n + 1, Len(s))

Take(s, n) == SubSeq(s, 1, n)

(***************************************************************************)
(* RawMessage: POD is an interface{} (nil, int64, uint64 or string; "ptr"  *)
(* is the pointer Marshal stores for a pointer to a non-struct), L the     *)
(* list children, D the dict pairs in wire order.                          *)
(***************************************************************************)
NoPOD == [t |-> "nil", i |-> 0, s |-> <<>>]

Int64POD(n) == [t |-> "int64", i |-> n, s |-> <<>>]

Uint64POD(n) == [t |-> "uint64", i |-> n, s |-> <<>>]

StringPOD(b) == [t |-> "string", i |-> 0, s |-> b]

RawMessage == [POD |-> NoPOD, L |-> <<>>, D |-> <<>>]

KV(k, v) == [K |-> k, V |-> v]

(***************************************************************************)
(* strconv with base 0 on a token of '-' and digits only (intBuf lets      *)
(* nothing else through): a leading 0 selects base 8. The 64-bit range     *)
(* error needs a token of 20 digits, longer than any stream of the model.  *)
(***************************************************************************)
RECURSIVE ParseDigits(_, _, _)
ParseDigits(s, base, acc) ==
  IF s = <<>> THEN [ok |-> TRUE, n |-> acc]
  ELSE IF ~IsDigit(Head(s)) \/ DigitVal(Head(s)) >= base
       THEN [ok |-> FALSE, n |-> 0]
       ELSE ParseDigits(Tail(s), base, acc * base + DigitVal(Head(s)))

ParseUint(s) ==
  IF s = <<>> THEN [ok |-> FALSE, n |-> 0]
  ELSE IF Head(s) = "0" THEN ParseDigits(Tail(s), 8, 0)
       ELSE ParseDigits(s, 10, 0)

ParseInt(s) ==
  IF s = <<>> THEN [ok |-> FALSE, n |-> 0]
  ELSE LET neg == Head(s) = "-"
           u == ParseUint(IF neg THEN Tail(s) ELSE s)
       IN IF ~u.ok THEN u
          ELSE [ok |-> TRUE, n |-> IF neg THEN 0 - u.n ELSE u.n]

\* fmt.Sprintf("%d", n)
RECURSIVE FormatUint(_)
FormatUint(n) ==
  IF n < 10 THEN <<Digits[n + 1]>>
  ELSE Append(FormatUint(n \div 10), Digits[(n % 10) + 1])

FormatInt(n) == IF n < 0 THEN <<"-">> \o FormatUint(0 - n) ELSE FormatUint(n)

(***************************************************************************)
(* The decoder, as a function of the decoder's logical stream s (the bytes *)
(* buffered by the bufio.Reader followed by those still in the underlying  *)
(* reader) and the position pos of the next unread byte.                   *)
(***************************************************************************)
\* isDelim without the UnreadByte: the peeked byte is lost on a mismatch.
isDelimNoUnread(s, pos, delim) ==
  IF pos > Len(s) THEN [st |-> "err", ok |-> FALSE, pos |-> pos]
  ELSE [st |-> "ok", ok |-> s[pos] = delim, pos |-> pos + 1]

isDelim(s, pos, delim) ==
  IF pos > Len(s) THEN [st |-> "err", ok |-> FALSE, pos |-> pos]
  ELSE IF s[pos] = delim THEN [st |-> "ok", ok |-> TRUE, pos |-> pos + 1]
       ELSE [st |-> "ok", ok |-> FALSE, pos |-> pos]

RECURSIVE intBufLoop(_, _, _, _)
intBufLoop(s, pos, delim, buf) ==
  LET d == isDelim(s, pos, delim) IN
  IF d.st = "err" THEN [st |-> "err", str |-> <<>>, pos |-> d.pos]
  ELSE IF d.ok THEN [st |-> "ok", str |-> buf, pos |-> d.pos]
  ELSE LET c == s[d.pos] IN
       IF ~(c = "-" \/ IsDigit(c))
       THEN [st |-> "err", str |-> <<>>, pos |-> d.pos + 1]
       ELSE intBufLoop(s, d.pos + 1, delim, Append(buf, c))

intBuf(s, pos, delim) == intBufLoop(s, pos, delim, <<>>)

strBuf(s, pos) ==
  LET ib == intBuf(s, pos, ":") IN
  IF ib.st = "err" THEN [st |-> "err", str |-> <<>>, pos |-> ib.pos]
  ELSE LET l == ParseUint(ib.str) IN
       IF ~l.ok THEN [st |-> "err", str |-> <<>>, pos |-> ib.pos]
       ELSE IF ib.pos + l.n - 1 > Len(s)
            THEN [st |-> "err", str |-> <<>>, pos |-> Len(s) + 1]
            ELSE [st |-> "ok", str |-> SubSeq(s, ib.pos, ib.pos + l.n - 1),
                  pos |-> ib.pos + l.n]

Fail(st, pos) == [st |-> st, val |-> RawMessage, pos |-> pos]

RECURSIVE decodeRawMessage(_, _)
RECURSIVE decodeList(_, _, _)
RECURSIVE decodeDict(_, _, _)

decodeList(s, pos, n) ==
  LET d == isDelim(s, pos, "e") IN
  IF d.st = "err" THEN Fail("err", d.pos)
  ELSE IF d.ok THEN [st |-> "ok", val |-> n, pos |-> d.pos]
  ELSE LET ln == decodeRawMessage(s, d.pos) IN
       IF ln.st # "ok" THEN Fail(ln.st, ln.pos)
       ELSE decodeList(s, ln.pos, [n EXCEPT !.L = Append(@, ln.val)])

decodeDict(s, pos, n) ==
  LET d == isDelim(s, pos, "e") IN
  IF d.st = "err" THEN Fail("err", d.pos)
  ELSE IF d.ok THEN [st |-> "ok", val |-> n, pos |-> d.pos]
  ELSE LET k == decodeRawMessage(s, d.pos) IN
       IF k.st # "ok" THEN Fail(k.st, k.pos)
       ELSE LET v == decodeRawMessage(s, k.pos) IN
            IF v.st # "ok" THEN Fail(v.st, v.pos)
            ELSE IF k.val.POD.t # "string" THEN Fail("panic", v.pos)
            ELSE decodeDict(s, v.pos,
                            [n EXCEPT !.D = Append(@, KV(k.val.POD.s, v.val))])

decodeRawMessage(s, pos) ==
  IF pos > Len(s) THEN Fail("err", pos)
  ELSE LET c == s[pos] IN
    CASE IsDigit(c) ->
           LET sb == strBuf(s, pos) IN
           IF sb.st = "err" THEN Fail("err", sb.pos)
           ELSE [st |-> "ok", val |-> [RawMessage EXCEPT !.POD = StringPOD(sb.str)],
                 pos |-> sb.pos]
      [] c = "i" ->
           LET ib == intBuf(s, pos + 1, "e") IN
           IF ib.st = "err" THEN Fail("err", ib.pos)
           ELSE IF ib.str = <<>> THEN Fail("panic", ib.pos)
           ELSE IF ib.str[1] = "-"
                THEN LET i == ParseInt(ib.str) IN
                     IF ~i.ok THEN Fail("err", ib.pos)
                     ELSE [st |-> "ok",
                           val |-> [RawMessage EXCEPT !.POD = Int64POD(i.n)],
                           pos |-> ib.pos]
                ELSE LET u == ParseUint(ib.str) IN
                     IF ~u.ok THEN Fail("err", ib.pos)
                     ELSE [st |-> "ok",
                           val |-> [RawMessage EXCEPT !.POD = Uint64POD(u.n)],
                           pos |-> ib.pos]
      [] c = "l" -> decodeList(s, pos + 1, RawMessage)
      [] c = "d" -> decodeDict(s, pos + 1, RawMessage)
      [] OTHER -> Fail("err", pos + 1)

(***************************************************************************)
(* The encoder.                                                            *)
(***************************************************************************)
encodePOD(pod) ==
  CASE pod.t = "int64" -> <<"i">> \o FormatInt(pod.i) \o <<"e">>
    [] pod.t = "uint64" -> <<"i">> \o FormatUint(pod.i) \o <<"e">>
    [] pod.t = "string" -> FormatUint(Len(pod.s)) \o <<":">> \o pod.s
    [] OTHER -> <<>>

RECURSIVE encodeRawMessage(_)
RECURSIVE encodeL(_)
RECURSIVE encodeD(_)

encodeL(l) ==
  IF l = <<>> THEN <<>> ELSE encodeRawMessage(Head(l)) \o encodeL(Tail(l))

encodeD(d) ==
  IF d = <<>> THEN <<>>
  ELSE encodePOD(StringPOD(Head(d).K)) \o encodeRawMessage(Head(d).V)
       \o encodeD(Tail(d))

encodeRawMessage(m) ==
  CASE m.POD.t # "nil" -> encodePOD(m.POD)
    [] m.POD.t = "nil" /\ Len(m.L) > 0 -> <<"l">> \o encodeL(m.L) \o <<"e">>
    [] m.POD.t = "nil" /\ Len(m.L) = 0 /\ Len(m.D) > 0 ->
         <<"d">> \o encodeD(m.D) \o <<"e">>
    [] OTHER -> <<>>

(***************************************************************************)
(* The wire grammar, read strictly: a length or an integer is written in   *)
(* decimal without leading zeros and without "-0", a dict key is a byte    *)
(* string. ValueEnd(s, pos) is the position after the one well-formed      *)
(* value that starts at pos, and 0 when there is none.                     *)
(***************************************************************************)
RECURSIVE DigitRunEnd(_, _)
DigitRunEnd(s, pos) ==
  IF pos <= Len(s) /\ IsDigit(s[pos]) THEN DigitRunEnd(s, pos + 1) ELSE pos

RECURSIVE DecimalValue(_)
DecimalValue(ds) ==
  IF ds = <<>> THEN 0
  ELSE 10 * DecimalValue(SubSeq(ds, 1, Len(ds) - 1)) + DigitVal(ds[Len(ds)])

Canonical(ds) == ds # <<>> /\ (Len(ds) > 1 => ds[1] # "0")

StringEnd(s, pos) ==
  LET q == DigitRunEnd(s, pos)
      ds == SubSeq(s, pos, q - 1)
  IN IF Canonical(ds) /\ q <= Len(s) /\ s[q] = ":"
        /\ q + DecimalValue(ds) <= Len(s)
     THEN q + DecimalValue(ds) + 1
     ELSE 0

IntegerEnd(s, pos) ==
  LET neg == pos + 1 <= Len(s) /\ s[pos + 1] = "-"
      p == IF neg THEN pos + 2 ELSE pos + 1
      q == DigitRunEnd(s, p)
      ds == SubSeq(s, p, q - 1)
  IN IF Canonical(ds) /\ ~(neg /\ ds = <<"0">>) /\ q <= Len(s) /\ s[q] = "e"
     THEN q + 1
     ELSE 0

RECURSIVE ValueEnd(_, _)
RECURSIVE ItemsEnd(_, _)
RECURSIVE PairsEnd(_, _)

ItemsEnd(s, pos) ==
  IF pos > Len(s) THEN 0
  ELSE IF s[pos] = "e" THEN pos + 1
  ELSE LET q == ValueEnd(s, pos) IN IF q = 0 THEN 0 ELSE ItemsEnd(s, q)

PairsEnd(s, pos) ==
  IF pos > Len(s) THEN 0
  ELSE IF s[pos] = "e" THEN pos + 1
  ELSE IF ~IsDigit(s[pos]) THEN 0
  ELSE LET k == StringEnd(s, pos) IN
       IF k = 0 THEN 0
       ELSE LET q == ValueEnd(s, k) IN IF q = 0 THEN 0 ELSE PairsEnd(s, q)

ValueEnd(s, pos) ==
  IF pos > Len(s) THEN 0
  ELSE CASE IsDigit(s[pos]) -> StringEnd(s, pos)
         [] s[pos] = "i" -> IntegerEnd(s, pos)
         [] s[pos] = "l" -> ItemsEnd(s, pos + 1)
         [] s[pos] = "d" -> PairsEnd(s, pos + 1)
         [] OTHER -> 0

WellFormed(b) == ValueEnd(b, 1) = Len(b) + 1

\* The position after the first k values of s, 0 when s does not start with
\* k well-formed values.
RECURSIVE EndOfValues(_, _)
EndOfValues(s, k) ==
  IF k = 0 THEN 1
  ELSE LET p == EndOfValues(s, k - 1) IN IF p = 0 THEN 0 ELSE ValueEnd(s, p)

\* The number of values s is the concatenation of, -1 when it is none.
RECURSIVE CountFrom(_, _)
CountFrom(s, pos) ==
  IF pos = Len(s) + 1 THEN 0
  ELSE LET q == ValueEnd(s, pos) IN
       IF q = 0 THEN -1
       ELSE LET n == CountFrom(s, q) IN IF n < 0 THEN -1 ELSE n + 1

NumValues(s) == CountFrom(s, 1)

IsStream(s) == NumValues(s) >= 0

\* The k-th value of the stream s, alone.
NthValue(s, k) == SubSeq(s, EndOfValues(s, k - 1), EndOfValues(s, k) - 1)

Values == {b \in BoundedSeq(Alphabet, MaxValLen) : WellFormed(b)}

RECURSIVE Streams(_)
Streams(n) ==
  IF n = 0 THEN {<<>>}
  ELSE Streams(n - 1) \cup {s \o v : s \in Streams(n - 1), v \in Values}

(***************************************************************************)
(* Typed Go values. A type is a descriptor [k |-> kind, ...]; a value of   *)
(* it is an integer (int64, uint64), a byte string (string), the sequence  *)
(* of its elements (slice), <<>> for a nil pointer and <<pointee>> for a   *)
(* set one (ptr), the sequence of its field values (struct; a RawMessage   *)
(* is itself), and 0 for a kind the package has no case for (array).       *)
(***************************************************************************)
Int64T == [k |-> "int64"]

Uint64T == [k |-> "uint64"]

StringT == [k |-> "string"]

ArrayT == [k |-> "array"]

SliceT(e) == [k |-> "slice", elem |-> e]

PtrT(e) == [k |-> "ptr", elem |-> e]

StructT(name, fields) == [k |-> "struct", name |-> name, fields |-> fields]

\* A reflect.StructField: Tag is the value of the field's `ben` tag.
Field(name, tag, type) ==
  [Name |-> name, Tag |-> tag, PkgPath |-> <<>>, Type |-> type]

RECURSIVE Zero(_)
Zero(typ) ==
  CASE typ.k \in {"int64", "uint64", "array"} -> 0
    [] typ.k \in {"string", "slice", "ptr", "map"} -> <<>>
    [] typ.k = "struct" ->
         [i \in 1..Len(typ.fields) |-> Zero(typ.fields[i].Type)]

isPOD(k) == k \in {"int64", "uint64", "string"}

isRawMessagePtr(typ) ==
  typ.k = "ptr" /\ typ.elem.k = "struct" /\ typ.elem.name = "RawMessage"

\* The wire key of a field: its tag, else its name.
Key(field) == IF Len(field.Tag) > 0 THEN field.Tag ELSE field.Name

(***************************************************************************)
(* Projection (marshal). A result is (rm, err): has tells rm from nil.     *)
(***************************************************************************)
NoRM(st) == [st |-> st, has |-> FALSE, rm |-> RawMessage]

SomeRM(m) == [st |-> "ok", has |-> TRUE, rm |-> m]

PODOf(typ, val) ==
  CASE typ.k = "int64" -> Int64POD(val)
    [] typ.k = "uint64" -> Uint64POD(val)
    [] typ.k = "string" -> StringPOD(val)
    [] OTHER -> [t |-> "ptr", i |-> 0, s |-> <<>>]

marshalPOD(typ, val) ==
  IF val = Zero(typ) THEN NoRM("ok")
  ELSE SomeRM([RawMessage EXCEPT !.POD = PODOf(typ, val)])

RECURSIVE marshalList(_, _)
RECURSIVE marshalListLoop(_, _, _, _)
RECURSIVE marshalDict(_, _)
RECURSIVE marshalDictLoop(_, _, _, _)

marshalListLoop(typ, val, i, rm) ==
  IF i > Len(val) THEN SomeRM(rm)
  ELSE LET kind == typ.elem.k
           m == CASE isPOD(kind) -> marshalPOD(typ.elem, val[i])
                  [] kind = "slice" -> marshalList(typ.elem, val[i])
                  [] kind = "ptr" -> marshalDict(typ.elem, val[i])
                  [] OTHER -> NoRM("ok")
       IN IF m.st # "ok" THEN NoRM(m.st)
          ELSE marshalListLoop(typ, val, i + 1,
                 IF m.has THEN [rm EXCEPT !.L = Append(@, m.rm)] ELSE rm)

marshalList(typ, val) ==
  IF Len(val) = 0 THEN NoRM("ok")
  ELSE marshalListLoop(typ, val, 1, RawMessage)

marshalDictLoop(typ, v, i, rm) ==
  IF i > Len(typ.fields) THEN SomeRM(rm)
  ELSE LET field == typ.fields[i] IN
    IF Len(field.PkgPath) > 0 THEN marshalDictLoop(typ, v, i + 1, rm)
    ELSE LET kind == field.Type.k
             m == CASE isPOD(kind) -> marshalPOD(field.Type, v[i])
                    [] kind = "slice" -> marshalList(field.Type, v[i])
                    [] kind = "ptr" -> marshalDict(field.Type, v[i])
                    [] OTHER -> NoRM("ok")
         IN IF m.st # "ok" THEN NoRM(m.st)
            ELSE marshalDictLoop(typ, v, i + 1,
                   IF m.has THEN [rm EXCEPT !.D = Append(@, KV(Key(field), m.rm))]
                   ELSE rm)

\* val.Elem() of a nil pointer is the zero reflect.Value, whose Type() panics.
marshalDict(typ, val) ==
  IF val = <<>> THEN NoRM("panic")
  ELSE IF typ.elem.k # "struct" THEN NoRM("err")
  ELSE IF typ.elem.name = "RawMessage" THEN SomeRM(val[1])
  ELSE marshalDictLoop(typ.elem, val[1], 1, RawMessage)

\* Marshal(val, w): the result and the bytes written to w.
Marshal(typ, val) ==
  LET m == CASE typ.k = "ptr" ->
                  IF typ.elem.k = "struct" THEN marshalDict(typ, val)
                  ELSE marshalPOD(typ, val)
             [] typ.k = "slice" -> marshalList(typ, val)
             [] OTHER -> NoRM("ok")
  IN [st |-> m.st, has |-> m.has, rm |-> m.rm,
      w |-> IF m.st = "ok" /\ m.has THEN encodeRawMessage(m.rm) ELSE <<>>]

(***************************************************************************)
(* Injection (unmarshal). A result is the error and the target's value     *)
(* after the call (what was set before an error stays set).                *)
(***************************************************************************)
Out(st, val) == [st |-> st, val |-> val]

unmarshalPOD(pod, typ, val) ==
  IF pod.t = "nil" THEN Out("panic", val)
  ELSE IF ~isPOD(pod.t) THEN Out("err", val)
  ELSE IF typ.k = "int64" /\ pod.t = "uint64" THEN Out("ok", pod.i)
  ELSE IF pod.t # typ.k THEN Out("err", val)
  ELSE Out("ok", IF pod.t = "string" THEN pod.s ELSE pod.i)

\* fields[kv.K]: the last exported field with that key, 0 when there is none.
fieldIndex(typ, key) ==
  LET hits == {i \in 1..Len(typ.fields) :
                 Len(typ.fields[i].PkgPath) = 0 /\ Key(typ.fields[i]) = key}
  IN IF hits = {} THEN 0 ELSE CHOOSE i \in hits : \A j \in hits : j <= i

\* `if !ok { continue }`, without which field.Type() is called on the zero
\* reflect.Value.
unknownKeyFaults(v) == Out("panic", v)

unknownKey(v) == Out("ok", v)

RECURSIVE unmarshalList(_, _, _)
RECURSIVE unmarshalListLoop(_, _, _, _)
RECURSIVE unmarshalDict(_, _, _)
RECURSIVE unmarshalDictLoop(_, _, _, _)

\* reflect.New(typ.Elem()) set into a value of type typ, then unmarshalDict.
allocAndUnmarshalDict(d, typ, val) ==
  CASE typ.k = "ptr" -> unmarshalDict(d, typ, <<Zero(typ.elem)>>)
    [] typ.k = "map" -> unmarshalDict(d, typ, <<>>)
    [] OTHER -> Out("panic", val)

unmarshalListLoop(l, typ, v, i) ==
  IF i > Len(l) THEN Out("ok", v)
  ELSE LET rm == l[i]
           elem == typ.elem
           grown == Append(v, Zero(elem))
           r == CASE isRawMessagePtr(elem) -> Out("ok", <<rm>>)
                  [] ~isRawMessagePtr(elem) /\ rm.POD.t # "nil" ->
                       unmarshalPOD(rm.POD, elem, grown[i])
                  [] ~isRawMessagePtr(elem) /\ rm.POD.t = "nil" /\ Len(rm.L) > 0 ->
                       unmarshalList(rm.L, elem, grown[i])
                  [] ~isRawMessagePtr(elem) /\ rm.POD.t = "nil" /\ Len(rm.L) = 0
                     /\ Len(rm.D) > 0 ->
                       IF elem.k = "map" THEN Out("panic", grown[i])
                       ELSE allocAndUnmarshalDict(rm.D, elem, grown[i])
                  [] OTHER -> Out("ok", grown[i])
           set == [grown EXCEPT ![i] = r.val]
       IN IF r.st # "ok" THEN Out(r.st, set)
          ELSE unmarshalListLoop(l, typ, set, i + 1)

unmarshalList(l, typ, val) ==
  IF typ.k # "slice" THEN Out("err", val)
  ELSE unmarshalListLoop(l, typ, val, 1)

unmarshalDictLoop(d, typ, v, i) ==
  IF i > Len(d) THEN Out("ok", v)
  ELSE LET kv == d[i]
           f == fieldIndex(typ, kv.K)
       IN IF f = 0
          THEN LET u == unknownKey(v) IN
               IF u.st # "ok" THEN u ELSE unmarshalDictLoop(d, typ, v, i + 1)
          ELSE LET rm == kv.V
                   ft == typ.fields[f].Type
                   r == CASE isRawMessagePtr(ft) -> Out("ok", <<rm>>)
                          [] ~isRawMessagePtr(ft) /\ rm.POD.t # "nil" ->
                               unmarshalPOD(rm.POD, ft, v[f])
                          [] ~isRawMessagePtr(ft) /\ rm.POD.t = "nil"
                             /\ Len(rm.L) > 0 ->
                               unmarshalList(rm.L, ft, v[f])
                          [] ~isRawMessagePtr(ft) /\ rm.POD.t = "nil"
                             /\ Len(rm.L) = 0 /\ Len(rm.D) > 0 ->
                               allocAndUnmarshalDict(rm.D, ft, v[f])
                          [] OTHER -> Out("ok", v[f])
                   set == [v EXCEPT ![f] = r.val]
               IN IF r.st # "ok" THEN Out(r.st, set)
                  ELSE unmarshalDictLoop(d, typ, set, i + 1)

\* val.Elem() of a nil pointer is the zero reflect.Value, whose Type() panics;
\* a map has no fields, so every pair is skipped.
unmarshalDict(d, typ, val) ==
  IF typ.k \notin {"ptr", "map"} THEN Out("err", val)
  ELSE IF typ.k = "map" THEN Out("ok", val)
  ELSE IF val = <<>> THEN Out("panic", val)
  ELSE IF typ.elem.k # "struct" THEN Out("err", val)
  ELSE LET r == unmarshalDictLoop(d, typ.elem, val[1], 1)
       IN Out(r.st, <<r.val>>)

\* rm.Unmarshal(v). A slice passed by value is not settable.
RawMessageUnmarshal(rm, typ, val) ==
  CASE typ.k = "ptr" ->
         IF typ.elem.k = "struct" THEN unmarshalDict(rm.D, typ, val)
         ELSE IF rm.POD.t = "nil" \/ val = <<>> THEN Out("panic", val)
         ELSE LET r == unmarshalPOD(rm.POD, typ.elem, val[1])
              IN Out(r.st, <<r.val>>)
    [] typ.k = "slice" ->
         IF Len(rm.L) > 0 THEN Out("panic", val) ELSE Out("ok", val)
    [] OTHER -> Out("ok", val)

\* Unmarshal(r, v) on a reader holding the bytes b.
Unmarshal(b, typ, val) ==
  LET r == decodeRawMessage(b, 1) IN
  IF r.st # "ok" THEN Out(r.st, val)
  ELSE RawMessageUnmarshal(r.val, typ, val)

(***************************************************************************)
(* The record types of the package's tests.                                *)
(***************************************************************************)
file ==
  StructT("file",
    <<Field(<<"L", "e", "n", "g", "t", "h">>, <<"l", "e", "n", "g", "t", "h">>, Uint64T),
      Field(<<"P", "a", "t", "h">>, <<"p", "a", "t", "h">>, SliceT(StringT)),
      Field(<<"M", "d", "5", "s", "u", "m">>, <<"m", "d", "5", "s", "u", "m">>, StringT)>>)

info ==
  StructT("info",
    <<Field(<<"P", "i", "e", "c", "e", "L", "e", "n", "g", "t", "h">>, <<"p", "i", "e", "c", "e", " ", "l", "e", "n", "g", "t", "h">>, Uint64T),
      Field(<<"N", "a", "m", "e">>, <<"n", "a", "m", "e">>, StringT),
      Field(<<"L", "e", "n", "g", "t", "h">>, <<"l", "e", "n", "g", "t", "h">>, Uint64T),
      Field(<<"M", "d", "5", "s", "u", "m">>, <<"m", "d", "5", "s", "u", "m">>, StringT),
      Field(<<"F", "i", "l", "e", "s">>, <<"f", "i", "l", "e", "s">>, SliceT(PtrT(file)))>>)

InfoHash == StructT("InfoHash", <<Field(<<"H", "a", "s", "h">>, <<>>, ArrayT)>>)

MetaInfo ==
  StructT("MetaInfo",
    <<Field(<<"I", "n", "f", "o">>, <<"i", "n", "f", "o">>, PtrT(info)),
      Field(<<"A", "n", "n", "o", "u", "n", "c", "e">>, <<"a", "n", "n", "o", "u", "n", "c", "e">>, StringT),
      Field(<<"A", "n", "n", "o", "u", "n", "c", "e", "L", "i", "s", "t">>, <<"a", "n", "n", "o", "u", "n", "c", "e", "-", "l", "i", "s", "t">>, SliceT(SliceT(StringT))),
      Field(<<"C", "r", "e", "a", "t", "i", "o", "n", "D", "a", "t", "e">>, <<"c", "r", "e", "a", "t", "i", "o", "n", " ", "d", "a", "t", "e">>, Int64T),
      Field(<<"C", "o", "m", "m", "e", "n", "t">>, <<"c", "o", "m", "m", "e", "n", "t">>, StringT)>>)

(***************************************************************************)
(* The package as a state machine.                                         *)
(* The codec:                                                              *)
(*   src   the bytes the underlying io.Reader held at the start            *)
(*   rd    the bytes the underlying io.Reader still holds                  *)
(*   dec   whether a Decoder d was made over the reader (NewDecoder)       *)
(*   buf   the bytes d.r has fetched from the reader and not yet handed on *)
(*   res   the outcome of the last decode call                             *)
(*   nret  how many values the decode calls have returned so far           *)
(*   out   the bytes Encode wrote for the value last decoded (a writer of   *)
(*         its own for each value), or the bytes Marshal wrote             *)
(*   op    the last operation                                              *)
(* The typed layer:                                                        *)
(*   typ, val  the type and the value of the Go value handed to Marshal,   *)
(*             or of the target handed to Unmarshal                        *)
(*   wire      the RawMessage whose Unmarshal method is called             *)
(*   mres      what Marshal computed and returned                          *)
(*   got       what Unmarshal returned and the target's value after it     *)
(***************************************************************************)
VARIABLES src, rd, dec, buf, res, nret, out, op, typ, val, wire, mres, got

vars == <<src, rd, dec, buf, res, nret, out, op, typ, val, wire, mres, got>>

codecVars == <<src, rd, dec, buf, res, nret>>

typedVars == <<typ, val, wire, mres, got>>

NoRes == [st |-> "none", has |-> FALSE, val |-> RawMessage]

\* What Decoder.Decode hands back: (root, nil) or (nil, err).
Returned(r) ==
  IF r.st = "ok" THEN [st |-> "ok", has |-> TRUE, val |-> r.val]
  ELSE [st |-> r.st, has |-> FALSE, val |-> RawMessage]

CodecIdle ==
  /\ src = <<>> /\ rd = <<>> /\ dec = FALSE /\ buf = <<>>
  /\ res = NoRes /\ nret = 0

TypedIdle ==
  /\ typ = ArrayT /\ val = 0 /\ wire = RawMessage
  /\ mres = NoRM("none") /\ got = Out("none", 0)

InitCodec(streams) ==
  /\ src \in streams
  /\ rd = src
  /\ dec = FALSE
  /\ buf = <<>>
  /\ res = NoRes
  /\ nret = 0
  /\ out = <<>>
  /\ op = "init"
  /\ TypedIdle

Init == InitCodec(BoundedSeq(Alphabet, MaxLen))

\* A caller stops at the first error, and a panic ends the program.
Running == res.st \in {"none", "ok"}

\* A program makes its Decoder before it reads anything from the reader.
NewDecoder ==
  /\ op = "init"
  /\ dec' = TRUE
  /\ buf' = <<>>
  /\ op' = "NewDecoder"
  /\ UNCHANGED <<src, rd, res, nret, out>>
  /\ UNCHANGED typedVars

(***************************************************************************)
(* bufio.Reader fills its empty buffer with one Read of the underlying     *)
(* reader, which may hand over any positive number of the bytes it holds   *)
(* (a bytes.Reader hands over all of them). A call that takes c bytes of   *)
(* the logical stream has therefore fetched f bytes, with f = 0 when the   *)
(* buffer held c bytes already, and c - held <= f <= avail otherwise.      *)
(***************************************************************************)
Fetched(c, held, avail) ==
  IF c <= held THEN {0} ELSE (c - held)..avail

DecoderDecode ==
  /\ Running
  /\ dec = TRUE
  /\ LET s == buf \o rd
         r == decodeRawMessage(s, 1)
         c == r.pos - 1
     IN /\ res' = Returned(r)
        /\ \E f \in Fetched(c, Len(buf), Len(rd)) :
             /\ buf' = Drop(buf \o Take(rd, f), c)
             /\ rd' = Drop(rd, f)
        /\ nret' = IF r.st = "ok" THEN nret + 1 ELSE nret
  /\ out' = <<>>
  /\ op' = "Decoder.Decode"
  /\ UNCHANGED <<src, dec>>
  /\ UNCHANGED typedVars

\* Decode(r): a new Decoder, with a buffer of its own, for this one call.
Decode ==
  /\ Running
  /\ dec = FALSE
  /\ LET r == decodeRawMessage(rd, 1)
         c == r.pos - 1
     IN /\ res' = Returned(r)
        /\ \E f \in Fetched(c, 0, Len(rd)) : rd' = Drop(rd, f)
        /\ nret' = IF r.st = "ok" THEN nret + 1 ELSE nret
  /\ out' = <<>>
  /\ op' = "Decode"
  /\ UNCHANGED <<src, dec, buf>>
  /\ UNCHANGED typedVars

\* Encode(m, w) of the value just decoded, on a writer of its own.
Encode ==
  /\ res.has
  /\ op \in {"Decoder.Decode", "Decode"}
  /\ out' = encodeRawMessage(res.val)
  /\ op' = "Encode"
  /\ UNCHANGED codecVars
  /\ UNCHANGED typedVars

Next == NewDecoder \/ DecoderDecode \/ Decode \/ Encode

Spec == Init /\ [][Next]_vars

\* The same machine started on a stream of well-formed values.
InitStream == InitCodec(Streams(MaxVals))

SpecStream == InitStream /\ [][Next]_vars

(***************************************************************************)
(* Marshal of a typed value, then Unmarshal of the bytes written into a    *)
(* fresh target of the same type.                                          *)
(***************************************************************************)
\* Longest sequence among the typed values.
MaxElems == 2

Strings == {<<>>, <<"a">>}

Uints == {0, 1}

Ints == {-1, 0, 1}

StringLists == BoundedSeq(Strings, MaxElems)

\* A pointer to each of S, and the nil pointer.
Pointers(S) == {<<>>} \cup {<<x>> : x \in S}

\* No sequence, and the sequences of one element of S.
UpToOne(S) == {<<>>} \cup {<<x>> : x \in S}

fileValues == {<<l, p, m>> : l \in Uints, p \in StringLists, m \in Strings}

infoValues ==
  {<<pl, n, l, m, fs>> : pl \in Uints, n \in Strings, l \in Uints,
                         m \in Strings,
                         fs \in UpToOne({<<f>> : f \in fileValues})}

MetaInfoValues ==
  {<<i, a, al, cd, c>> : i \in Pointers(infoValues), a \in Strings,
                         al \in UpToOne(StringLists), cd \in Ints,
                         c \in Strings}

InitMarshal ==
  /\ \/ typ = PtrT(file) /\ val \in {<<v>> : v \in fileValues}
     \/ typ = PtrT(info) /\ val \in {<<v>> : v \in infoValues}
     \/ typ = PtrT(MetaInfo) /\ val \in {<<v>> : v \in MetaInfoValues}
     \/ typ = PtrT(InfoHash) /\ val = <<Zero(InfoHash)>>
     \/ typ = SliceT(StringT) /\ val \in StringLists
     \/ typ = SliceT(Int64T) /\ val \in BoundedSeq(Ints, MaxElems)
     \/ typ = SliceT(SliceT(StringT)) /\ val \in BoundedSeq(StringLists, MaxElems)
     \/ typ = SliceT(PtrT(file)) /\ val \in UpToOne({<<f>> : f \in fileValues})
  /\ wire = RawMessage
  /\ mres = NoRM("none")
  /\ got = Out("none", 0)
  /\ out = <<>>
  /\ op = "init"
  /\ CodecIdle

MarshalCall ==
  /\ op = "init"
  /\ LET m == Marshal(typ, val) IN
       /\ mres' = [st |-> m.st, has |-> m.has, rm |-> m.rm]
       /\ out' = m.w
  /\ op' = "Marshal"
  /\ UNCHANGED <<typ, val, wire, got>>
  /\ UNCHANGED codecVars

\* Unmarshal of the bytes Marshal wrote, into new(T) for a record type T.
UnmarshalCall ==
  /\ op = "Marshal"
  /\ mres.st = "ok"
  /\ typ.k = "ptr"
  /\ got' = Unmarshal(out, typ, <<Zero(typ.elem)>>)
  /\ op' = "Unmarshal"
  /\ UNCHANGED <<typ, val, wire, mres, out>>
  /\ UNCHANGED codecVars

NextMarshal == MarshalCall \/ UnmarshalCall

SpecMarshal == InitMarshal /\ [][NextMarshal]_vars

(***************************************************************************)
(* rm.Unmarshal(v) of a decoded dict into new(T) for a record type T.      *)
(***************************************************************************)
\* Most pairs in an injected dict.
MaxPairs == 2

Scalar(pod) == [RawMessage EXCEPT !.POD = pod]

List(l) == [RawMessage EXCEPT !.L = l]

Dict(d) == [RawMessage EXCEPT !.D = d]

\* Trees the decoder produces: a non-negative integer is a uint64, a negative
\* one an int64, and "le" and "de" both give the RawMessage with no children.
WireValues ==
  {Scalar(Uint64POD(1)), Scalar(Int64POD(-1)), Scalar(StringPOD(<<"a">>)),
   RawMessage,
   List(<<Scalar(StringPOD(<<"a">>))>>),
   List(<<List(<<Scalar(StringPOD(<<"a">>))>>)>>),
   Dict(<<KV(<<"n", "a", "m", "e">>, Scalar(StringPOD(<<"a">>)))>>),
   Dict(<<KV(<<"x">>, Scalar(Uint64POD(1)))>>)}

\* The keys of some fields of T, and a key no field of file or MetaInfo has.
WireKeys(T) ==
  {<<"x">>} \cup
  (IF T = file THEN {Key(file.fields[i]) : i \in 1..Len(file.fields)}
   ELSE {Key(MetaInfo.fields[i]) : i \in {1, 3, 4}})

WireDicts(T) ==
  BoundedSeq({KV(k, v) : k \in WireKeys(T), v \in WireValues}, MaxPairs)

InitInject ==
  /\ \E T \in {file, MetaInfo} :
       /\ typ = PtrT(T)
       /\ val = <<Zero(T)>>
       /\ wire \in {Dict(d) : d \in WireDicts(T)}
  /\ mres = NoRM("none")
  /\ got = Out("none", 0)
  /\ out = <<>>
  /\ op = "init"
  /\ CodecIdle

RawMessageUnmarshalCall ==
  /\ op = "init"
  /\ got' = RawMessageUnmarshal(wire, typ, val)
  /\ op' = "RawMessage.Unmarshal"
  /\ UNCHANGED <<typ, val, wire, mres, out>>
  /\ UNCHANGED codecVars

NextInject == RawMessageUnmarshalCall

SpecInject == InitInject /\ [][NextInject]_vars

(***************************************************************************)
(* The properties.                                                         *)
(***************************************************************************)
Remainder == buf \o rd

\* C1: decoding a well-formed wire input and re-encoding the decoded value
\* writes exactly the bytes of the input.
C1_RoundTrip ==
  (op = "Encode" /\ nret = 1 /\ WellFormed(src)) => out = src

\* C3: a decode call returns either a value and no error, or an error and
\* no value; it never faults.
C3_ValueOrError ==
  (op \in {"Decode", "Decoder.Decode"}) =>
     \/ res.st = "ok" /\ res.has
     \/ res.st = "err" /\ ~res.has

\* C4 as stated: after any decode call that returned the first nret values
\* of a stream of well-formed values, the unread remainder of the stream is
\* exactly the values that follow them.
C4_AnyDecodeLeavesRest ==
  (op \in {"Decode", "Decoder.Decode"} /\ IsStream(src) /\ res.st = "ok") =>
     Remainder = Drop(src, EndOfValues(src, nret) - 1)

\* C4 amended: the calls of one Decoder on a stream of well-formed values
\* return the values in order, each equal to what decoding that value alone
\* gives, the Decoder's unread remainder (what it buffered, then what the
\* reader holds) is exactly the values that follow, and the only error is the
\* end of the stream after the last value.
C4_DecoderLeavesRest ==
  (dec /\ op = "Decoder.Decode" /\ IsStream(src)) =>
     IF res.st = "ok"
     THEN /\ nret <= NumValues(src)
          /\ Remainder = Drop(src, EndOfValues(src, nret) - 1)
          /\ res.val = decodeRawMessage(NthValue(src, nret), 1).val
     ELSE res.st = "err" /\ nret = NumValues(src) /\ Remainder = <<>>

C4_Witness ==
  /\ dec /\ op = "Decoder.Decode" /\ res.st = "ok"
  /\ nret = 2 /\ NumValues(src) = 2
  /\ Len(res.val.L) > 0

IsRecordPtr(T) == T.k = "ptr" /\ T.elem.k = "struct"

\* Every field of the record v, and of every record reachable from it, holds
\* a non-zero value: a non-zero integer, a non-empty string, a set pointer, a
\* non-empty sequence (of set pointers and non-empty sequences, when those are
\* its elements).
RECURSIVE FieldsNonZero(_, _)
RECURSIVE RecordsNonZero(_, _)

RecordsNonZero(T, v) ==
  CASE T.k = "ptr" -> v # <<>> /\ FieldsNonZero(T.elem, v[1])
    [] T.k = "slice" ->
         v # <<>> /\ \A i \in 1..Len(v) : RecordsNonZero(T.elem, v[i])
    [] OTHER -> TRUE

FieldsNonZero(T, v) ==
  T.k = "struct" =>
    \A i \in 1..Len(T.fields) :
      /\ v[i] # Zero(T.fields[i].Type)
      /\ RecordsNonZero(T.fields[i].Type, v[i])

\* C2: for a record whose fields are all non-zero, Marshal succeeds and
\* Unmarshal of the bytes it wrote, into a fresh record of the same type,
\* succeeds and gives an equal record.
C2_MarshalUnmarshal ==
  (IsRecordPtr(typ) /\ FieldsNonZero(typ.elem, val[1])) =>
     /\ op = "Marshal" => mres.st = "ok"
     /\ op = "Unmarshal" => got.st = "ok" /\ got.val = val

DictKeys(m) == {m.D[j].K : j \in 1..Len(m.D)}

\* C5: projecting a record succeeds and leaves out the key of every exported
\* field that holds its type's zero value.
C5_ZeroFieldsOmitted ==
  (op = "Marshal" /\ IsRecordPtr(typ)) =>
     /\ mres.st = "ok"
     /\ \A i \in 1..Len(typ.elem.fields) :
          LET field == typ.elem.fields[i] IN
          (Len(field.PkgPath) = 0 /\ val[1][i] = Zero(field.Type)) =>
             Key(field) \notin DictKeys(mres.rm)

Supported(T) == isPOD(T.k) \/ T.k \in {"slice", "ptr"}

\* C8: projecting a record with an exported field of an unsupported shape
\* returns an error.
C8_UnsupportedFieldFails ==
  (op = "Marshal" /\ IsRecordPtr(typ)
   /\ \E i \in 1..Len(typ.elem.fields) :
        /\ Len(typ.elem.fields[i].PkgPath) = 0
        /\ ~Supported(typ.elem.fields[i].Type)) =>
     mres.st = "err"

\* C9: projecting a sequence of n > 0 elements gives a List of n children,
\* child i the projection of element i (for a scalar element, the Scalar
\* holding it); projecting an empty sequence gives no value.
C9_ListPositional ==
  (op = "Marshal" /\ typ.k = "slice") =>
     IF Len(val) = 0 THEN mres.st = "ok" /\ ~mres.has
     ELSE /\ mres.st = "ok" /\ mres.has
          /\ Len(mres.rm.L) = Len(val)
          /\ isPOD(typ.elem.k) =>
               \A i \in 1..Len(val) :
                  mres.rm.L[i].POD = PODOf(typ.elem, val[i])

\* C10: the bytes a successful Marshal writes are one well-formed value,
\* which the decoder accepts, taking all of them.
C10_MarshalWellFormed ==
  (op = "Marshal" /\ mres.st = "ok" /\ out # <<>>) =>
     /\ WellFormed(out)
     /\ decodeRawMessage(out, 1).st = "ok"
     /\ decodeRawMessage(out, 1).pos = Len(out) + 1

WireKind(m) ==
  CASE m.POD.t # "nil" -> m.POD.t
    [] m.POD.t = "nil" /\ Len(m.L) > 0 -> "list"
    [] m.POD.t = "nil" /\ Len(m.L) = 0 /\ Len(m.D) > 0 -> "dict"
    [] OTHER -> "empty"

\* The wire kinds a field of type T takes: its own kind, an unsigned integer
\* for a signed field, a list for a sequence, a dict for a record pointer
\* (a list or dict without children fits either of the last two).
Fits(w, T) ==
  \/ isPOD(T.k) /\ w = T.k
  \/ T.k = "int64" /\ w = "uint64"
  \/ T.k = "slice" /\ w \in {"list", "empty"}
  \/ T.k = "ptr" /\ w \in {"dict", "empty"}

Known(i) == fieldIndex(typ.elem, wire.D[i].K) # 0

\* C6: a pair whose value does not fit the field its key names makes
\* injection return an error, and an unsigned integer is accepted by a
\* signed field.
C6_MismatchIsError ==
  (op = "RawMessage.Unmarshal") =>
     /\ (\E i \in 1..Len(wire.D) :
           /\ Known(i)
           /\ ~Fits(WireKind(wire.D[i].V),
                    typ.elem.fields[fieldIndex(typ.elem, wire.D[i].K)].Type))
        => got.st = "err"
     /\ (/\ Len(wire.D) > 0
         /\ \A i \in 1..Len(wire.D) :
              /\ Known(i)
              /\ WireKind(wire.D[i].V) = "uint64"
              /\ typ.elem.fields[fieldIndex(typ.elem, wire.D[i].K)].Type.k
                   = "int64")
        => (got.st = "ok" /\ got.val[1][4] = 1)

RECURSIVE KnownPairs(_, _)
KnownPairs(T, d) ==
  IF d = <<>> THEN <<>>
  ELSE IF fieldIndex(T, Head(d).K) = 0 THEN KnownPairs(T, Tail(d))
       ELSE <<Head(d)>> \o KnownPairs(T, Tail(d))

\* C7: injecting a dict into a record gives the result and the target state
\* that injecting the dict without its unknown-key pairs gives.
C7_UnknownKeysIgnored ==
  (op = "RawMessage.Unmarshal") =>
     got = RawMessageUnmarshal(Dict(KnownPairs(typ.elem, wire.D)), typ, val)

C7_Witness ==
  /\ op = "RawMessage.Unmarshal"
  /\ \E i \in 1..Len(wire.D) : ~Known(i)
  /\ \E i \in 1..Len(wire.D) : Known(i)
  /\ got.st = "ok"
  /\ got.val # val

====
